---- MODULE Spec2Model ----
(***************************************************************************)
(* Voice player of discord.js: BasePlayer (pipeline construction and the   *)
(* single dispatcher slot) and DefaultPlayer (playFile / playStream).      *)
(* JavaScript runs one call at a time, so the state is the player's        *)
(* fields, the dispatchers created so far and the call stack; a listener   *)
(* of a dispatcher notification runs on top of the call that emitted it.   *)
(***************************************************************************)
EXTENDS Integers, Sequences, FiniteSets, TLC

\* ---------------------------------------------------------------- bounds
MaxPlays == 3
MaxHandlerCalls == 1

\* ------------------------------------------------- encoding of JS values
\* options.volume === false, an option left undefined, a stream reference
\* that is not set, the stream the caller supplied.
VolFalse == -1
VolUndefined == -2
SeekUndefined == -99
Unset == -1
Caller == 0

\* The options argument: left out altogether (def is FALSE), or an object.
NoOptions == [def |-> FALSE, seek |-> SeekUndefined, volume |-> VolUndefined]
Opt(s, v) == [def |-> TRUE, seek |-> s, volume |-> v]
Options ==
  { NoOptions, Opt(SeekUndefined, VolFalse), Opt(SeekUndefined, VolUndefined),
    Opt(SeekUndefined, 50), Opt(5, 50), Opt(-5, 50) }

\* The public entry points with the shape of their input.
Entries ==
  { <<"playUnknown", "FilePath">>, <<"playUnknown", "RawByteStream">>,
    <<"playPCMStream", "CanonicalPCM">>, <<"playOpusStream", "CanonicalEncoded">>,
    <<"playFile", "FilePath">>, <<"playStream", "RawByteStream">>,
    <<"createDispatcher", "none">> }

VARIABLES
  dispatcher,   \* BasePlayer.dispatcher: 0 is null, else an index of disp
  disp,         \* the StreamDispatchers constructed so far
  stack,        \* the call stack, top last
  plays,        \* play calls started so far
  ev,           \* what the last step did: a call returned or threw
  rs            \* the ClientDataResolver: its client's collections, its last call

vars == <<dispatcher, disp, stack, plays, ev, rs>>

\* ------------------------------------------------------------- JS values
\* A value is <<kind, a, b>>: a string a; a User, Channel or Guild of ID a
\* (a Guild with owner b); a GuildMember of user a in guild b; a Message of
\* author a in channel b; null, undefined, a number; the TypeError a
\* property read of null or undefined throws.
Null == <<"null", "", "">>
Undefined == <<"undefined", "", "">>
Num == <<"number", "", "">>
Threw == <<"TypeError", "", "">>
Str(x) == <<"string", x, "">>
User(u) == <<"User", u, "">>
Channel(c) == <<"Channel", c, "">>
Guild(g, owner) == <<"Guild", g, owner>>
GuildMember(u, g) == <<"GuildMember", u, g>>
Message(u, c) == <<"Message", u, c>>

UserIds == {"u1", "u2"}
ChannelIds == {"c1", "g1"}
GuildIds == {"g1"}

\* No call made, no file asked for.
NoFile == [phase |-> "idle", res |-> "none", promise |-> "none", uncaught |-> FALSE]
NoResolver ==
  [users |-> {}, channels |-> {}, guilds |-> {}, gchannels |-> {}, members |-> {},
   fn |-> "none", a |-> Undefined, b |-> Undefined, out |-> Undefined,
   file |-> NoFile]

NoEvent ==
  [type |-> "none", entry |-> "none", cls |-> "none", opts |-> NoOptions,
   ret |-> 0, stages |-> <<>>, pipes |-> {}, held |-> 0, leak |-> {}]

BlankFrame ==
  [fn |-> "none", pc |-> "start", entry |-> "none", cls |-> "none",
   opts |-> NoOptions, stream |-> Unset, stages |-> <<>>, pipes |-> {},
   sinput |-> Unset, sffmpeg |-> Unset, svolume |-> Unset, sopus |-> Unset,
   d |-> 0, n |-> 0, held |-> 0]

Top == stack[Len(stack)]
Running(fn, pc) == Len(stack) > 0 /\ Top.fn = fn /\ Top.pc = pc
Pop == SubSeq(stack, 1, Len(stack) - 1)
\* Replace the top frame.
SetTop(f) == [stack EXCEPT ![Len(stack)] = f]
\* Leave the top frame at pc and call g on top of it.
CallFrom(pc, g) == Append(SetTop([Top EXCEPT !.pc = pc]), g)

Init ==
  /\ dispatcher = 0
  /\ disp = <<>>
  /\ stack = <<>>
  /\ plays = 0
  /\ ev = NoEvent
  /\ rs = NoResolver

PlayFrame(e, o) ==
  [BlankFrame EXCEPT !.fn = e[1], !.entry = e[1], !.cls = e[2], !.opts = o,
                     !.stream = Caller, !.held = dispatcher]

\* An exception: nothing in the players catches, so it unwinds every frame
\* up to the caller of the outermost call.
Throw(f) ==
  /\ stack' = <<>>
  /\ ev' = [NoEvent EXCEPT !.type = "throw", !.entry = f.entry, !.cls = f.cls,
                           !.opts = f.opts, !.stages = f.stages, !.pipes = f.pipes,
                           !.held = f.held]

\* ------------------------------------------------------- the application
CallPlay ==
  /\ stack = <<>>
  /\ plays < MaxPlays
  /\ \E e \in Entries, o \in Options :
        stack' = <<PlayFrame(e, o)>>
  /\ plays' = plays + 1
  /\ ev' = NoEvent
  /\ UNCHANGED <<dispatcher, disp, rs>>

\* player.destroy(), called with the slot as it is now.
DestroyFrame ==
  [BlankFrame EXCEPT !.fn = "destroy", !.entry = "destroy", !.held = dispatcher]

CallDestroy ==
  /\ stack = <<>>
  /\ stack' = <<DestroyFrame>>
  /\ ev' = NoEvent
  /\ UNCHANGED <<dispatcher, disp, plays, rs>>

\* ------------------------------------------------------------ BasePlayer
\* destroy() { this.destroyDispatcher(); }
Destroy ==
  \/ /\ Running("destroy", "start")
     /\ stack' = CallFrom("ret", [BlankFrame EXCEPT !.fn = "destroyDispatcher"])
     /\ ev' = NoEvent
     /\ UNCHANGED <<dispatcher, disp, plays, rs>>
  \/ /\ Running("destroy", "ret")
     /\ stack' = Pop
     /\ ev' = [NoEvent EXCEPT !.type = "return", !.entry = "destroy",
                              !.held = Top.held]
     /\ UNCHANGED <<dispatcher, disp, plays, rs>>

\* A destroyDispatcher without its test of the slot: destroy() of null
\* throws.
DestroyDispatcherUnguarded ==
  /\ Running("destroyDispatcher", "start")
  /\ IF dispatcher # 0
       THEN /\ stack' = CallFrom("null", [BlankFrame EXCEPT !.fn = "dispatcher.destroy",
                                                            !.d = dispatcher])
            /\ ev' = NoEvent
       ELSE Throw(stack[Len(stack) - 1])
  /\ UNCHANGED <<dispatcher, disp, plays, rs>>

\* if (this.dispatcher) { this.dispatcher.destroy(); this.dispatcher = null; }
DestroyDispatcherCheck ==
  /\ Running("destroyDispatcher", "start")
  /\ stack' = IF dispatcher # 0
                THEN CallFrom("null", [BlankFrame EXCEPT !.fn = "dispatcher.destroy",
                                                         !.d = dispatcher])
                ELSE Pop
  /\ ev' = NoEvent
  /\ UNCHANGED <<dispatcher, disp, plays, rs>>

\* A destroyDispatcher that tries again until the slot is empty, and never
\* empties it.
DestroyDispatcherRetry ==
  /\ Running("destroyDispatcher", "null")
  /\ stack' = SetTop([Top EXCEPT !.pc = "start"])
  /\ ev' = NoEvent
  /\ UNCHANGED <<dispatcher, disp, plays, rs>>

\* this.dispatcher = null, once dispatcher.destroy() has returned.
DestroyDispatcherNull ==
  /\ Running("destroyDispatcher", "null")
  /\ dispatcher' = 0
  /\ stack' = Pop
  /\ ev' = NoEvent
  /\ UNCHANGED <<disp, plays, rs>>

\* ------------------------------------------------------ StreamDispatcher
\* new StreamDispatcher(player, options, streams): Created, holding the
\* streams record of the request.
NewDispatcher(f) ==
  [state |-> "Created", stages |-> f.stages, pipes |-> f.pipes,
   sinput |-> f.sinput, sffmpeg |-> f.sffmpeg, svolume |-> f.svolume,
   sopus |-> f.sopus, term |-> Unset, notes |-> 0, errs |-> 0]

\* A destroyed dispatcher has released every stage and its source.
Released ==
  [state |-> "Destroyed", stages |-> <<>>, pipes |-> {}, sinput |-> Unset,
   sffmpeg |-> Unset, svolume |-> Unset, sopus |-> Unset, term |-> Unset,
   notes |-> 0, errs |-> 0]

\* The stages on the way to stream reference x, source first.
RECURSIVE PathTo(_, _)
PathTo(pipes, x) ==
  IF x <= Caller THEN <<>>
  ELSE LET ups == {q \in pipes : q[2] = x} IN
       IF ups = {} THEN <<x>>
       ELSE Append(PathTo(pipes, (CHOOSE q \in ups : TRUE)[1]), x)

\* The streams the dispatcher was handed: the fields of its streams record.
Refs(dr) == {dr.sinput, dr.sffmpeg, dr.svolume, dr.sopus} \ {Unset}

\* Stage i is within reach of the dispatcher: it is in the streams record
\* or piped, directly or not, after a stream that is.
Reachable(dr, i) ==
  \/ \E j \in 1..Len(PathTo(dr.pipes, i)) : PathTo(dr.pipes, i)[j] \in Refs(dr)
  \/ Caller \in Refs(dr) /\ <<Caller, PathTo(dr.pipes, i)[1]>> \in dr.pipes

\* The stages destroy() cannot release: nothing the dispatcher holds leads
\* to them.
Unreleased(dr) == {i \in 1..Len(dr.stages) : ~Reachable(dr, i)}

\* The byte source of the pipeline of a dispatcher: the caller's stream, or
\* the FFmpeg stage that reads the file.
SourceRef(dr) ==
  LET path == PathTo(dr.pipes, dr.term) IN
  IF path = <<>> \/ <<Caller, path[1]>> \in dr.pipes THEN Caller ELSE path[1]

\* The dispatcher learns of an error of the source only if the source is
\* one of the streams it was handed.
Observed(dr) == SourceRef(dr) \in Refs(dr)

\* The dispatcher once destroyed: one more end notification on record.
Destroyed(dr) == [Released EXCEPT !.notes = dr.notes + 1]

\* dispatcher.destroy(): idempotent; the first call marks the dispatcher
\* Destroyed and then notifies the listeners, which run before it returns.
DispatcherDestroy ==
  \/ /\ Running("dispatcher.destroy", "start")
     /\ disp[Top.d].state = "Destroyed"
     /\ stack' = Pop
     /\ ev' = NoEvent
     /\ UNCHANGED <<dispatcher, disp, plays, rs>>
  \/ /\ Running("dispatcher.destroy", "start")
     /\ disp[Top.d].state # "Destroyed"
     /\ disp' = [disp EXCEPT ![Top.d] = Destroyed(@)]
     /\ stack' = CallFrom("ret", [BlankFrame EXCEPT !.fn = "handler", !.d = Top.d])
     /\ ev' = [NoEvent EXCEPT !.type = "destroyed", !.ret = Top.d,
                              !.leak = Unreleased(disp[Top.d])]
     /\ UNCHANGED <<dispatcher, plays, rs>>
  \/ /\ Running("dispatcher.destroy", "ret")
     /\ stack' = Pop
     /\ ev' = NoEvent
     /\ UNCHANGED <<dispatcher, disp, plays, rs>>

\* The application calls destroy() on a dispatcher it was returned.
CallDispatcherDestroy ==
  /\ stack = <<>>
  /\ \E d \in 1..Len(disp) :
       stack' = <<[BlankFrame EXCEPT !.fn = "dispatcher.destroy", !.d = d]>>
  /\ ev' = NoEvent
  /\ UNCHANGED <<dispatcher, disp, plays, rs>>

\* The byte source of a Streaming dispatcher fails. A dispatcher that
\* observes the source takes the error up; otherwise nobody does.
SourceError ==
  /\ stack = <<>>
  /\ \E d \in 1..Len(disp) :
       /\ disp[d].state = "Streaming"
       /\ IF Observed(disp[d])
            THEN /\ stack' = <<[BlankFrame EXCEPT !.fn = "dispatcher.error", !.d = d]>>
                 /\ ev' = NoEvent
            ELSE /\ stack' = stack
                 /\ ev' = [NoEvent EXCEPT !.type = "errorLost", !.ret = d]
  /\ UNCHANGED <<dispatcher, disp, plays, rs>>

\* The dispatcher on a source error: one errored notification to the
\* listeners, then destroy() on itself.
DispatcherError ==
  \/ /\ Running("dispatcher.error", "start")
     /\ disp' = [disp EXCEPT ![Top.d].errs = @ + 1]
     /\ stack' = CallFrom("destroy", [BlankFrame EXCEPT !.fn = "handler", !.d = Top.d])
     /\ ev' = NoEvent
     /\ UNCHANGED <<dispatcher, plays, rs>>
  \/ /\ Running("dispatcher.error", "destroy")
     /\ stack' = CallFrom("ret", [BlankFrame EXCEPT !.fn = "dispatcher.destroy",
                                                    !.d = Top.d])
     /\ ev' = NoEvent
     /\ UNCHANGED <<dispatcher, disp, plays, rs>>
  \/ /\ Running("dispatcher.error", "ret")
     /\ stack' = Pop
     /\ ev' = [NoEvent EXCEPT !.type = "errorHandled", !.ret = Top.d]
     /\ UNCHANGED <<dispatcher, disp, plays, rs>>

\* A listener of the notification: application code that may call back
\* into the player before it returns.
Handler ==
  \/ /\ Running("handler", "start")
     /\ stack' = Pop
     /\ ev' = NoEvent
     /\ UNCHANGED <<dispatcher, disp, plays, rs>>
  \/ /\ Running("handler", "start")
     /\ Top.n < MaxHandlerCalls
     /\ plays < MaxPlays
     /\ \E e \in Entries, o \in Options :
          stack' = Append(SetTop([Top EXCEPT !.n = @ + 1]), PlayFrame(e, o))
     /\ plays' = plays + 1
     /\ ev' = NoEvent
     /\ UNCHANGED <<dispatcher, disp, rs>>
  \/ /\ Running("handler", "start")
     /\ Top.n < MaxHandlerCalls
     /\ stack' = Append(SetTop([Top EXCEPT !.n = @ + 1]), DestroyFrame)
     /\ ev' = NoEvent
     /\ UNCHANGED <<dispatcher, disp, plays, rs>>

\* ------------------------------------------------- BasePlayer: pipelines
\* The prism-media stages, with the one parameter that varies.
FFmpeg(seek) == [k |-> "FFmpeg", p |-> seek]
Encoder == [k |-> "Encoder", p |-> 0]
Decoder == [k |-> "Decoder", p |-> 0]
VolumeTransformer(v) == [k |-> "Volume", p |-> v]

\* if (options.seek) args.push('-ss', String(options.seek)): the -ss
\* argument of the FFmpeg stage, SeekUndefined when it has none.
SeekArg(o) == IF o.seek # SeekUndefined /\ o.seek # 0 THEN o.seek ELSE SeekUndefined

\* options ? options.volume : 1
VolumeOf(o) == IF o.def THEN o.volume ELSE 100

Returned(f) ==
  [NoEvent EXCEPT !.type = "return", !.entry = f.entry, !.cls = f.cls,
                  !.opts = f.opts, !.ret = f.d, !.held = f.held]

\* Every play function and createDispatcher begin with this.destroyDispatcher().
CallDestroyDispatcher(fn, next) ==
  /\ Running(fn, "start")
  /\ stack' = CallFrom(next, [BlankFrame EXCEPT !.fn = "destroyDispatcher"])
  /\ ev' = NoEvent
  /\ UNCHANGED <<dispatcher, disp, plays, rs>>

\* playUnknown, lines 46-57: the FFmpeg stage, fed by the input when the
\* input is a stream, handed to playPCMStream.
BuildUnknown(f) ==
  LET isStream == f.cls = "RawByteStream" IN
  [f EXCEPT !.fn = "playPCMStream", !.pc = "start",
            !.stages = <<FFmpeg(SeekArg(f.opts))>>,
            !.sffmpeg = 1,
            !.sinput = IF isStream THEN Caller ELSE Unset,
            !.pipes = IF isStream THEN {<<Caller, 1>>} ELSE {},
            !.stream = 1]

PlayUnknown ==
  \/ CallDestroyDispatcher("playUnknown", "build")
  \/ /\ Running("playUnknown", "build")
     /\ IF Top.opts.def
          THEN stack' = SetTop(BuildUnknown(Top)) /\ ev' = NoEvent
          ELSE Throw(Top)
     /\ UNCHANGED <<dispatcher, disp, plays, rs>>

\* options && options.volume === false
VolumeOffLoose(o) == ~o.def \/ o.volume \in {VolFalse, VolUndefined, 0}
VolumeOff(o) == o.def /\ o.volume = VolFalse

\* playPCMStream, lines 62-69: the encoder, and the volume transformer in
\* front of it unless volume is off, handed to playOpusStream.
BuildPCM(f) ==
  LET opus == Len(f.stages) + 1
      volume == Len(f.stages) + 2
  IN IF VolumeOff(f.opts)
       THEN [f EXCEPT !.fn = "playOpusStream", !.pc = "start",
                      !.stages = Append(@, Encoder),
                      !.sopus = opus,
                      !.pipes = @ \cup {<<f.stream, opus>>},
                      !.stream = opus]
       ELSE [f EXCEPT !.fn = "playOpusStream", !.pc = "start",
                      !.stages = @ \o <<Encoder, VolumeTransformer(VolumeOf(f.opts))>>,
                      !.sopus = opus,
                      !.svolume = volume,
                      !.pipes = @ \cup {<<f.stream, volume>>, <<volume, opus>>},
                      !.stream = opus]

PlayPCMStream ==
  \/ CallDestroyDispatcher("playPCMStream", "build")
  \/ /\ Running("playPCMStream", "build")
     /\ stack' = SetTop(BuildPCM(Top))
     /\ ev' = NoEvent
     /\ UNCHANGED <<dispatcher, disp, plays, rs>>

\* options.volume !== false && !streams.input
WrapAlways(o, sinput) == sinput = Unset
WrapWithVolume(o, sinput) == o.volume # VolFalse /\ sinput = Unset

\* playOpusStream, lines 74-83: streams.opus is the stream as given, or the
\* end of a decoder, volume transformer and encoder piped after it.
BuildOpus(f) ==
  LET decoder == Len(f.stages) + 1
      volume == Len(f.stages) + 2
      opus == Len(f.stages) + 3
  IN IF WrapWithVolume(f.opts, f.sinput)
       THEN [f EXCEPT !.sinput = f.stream,
                      !.stages = @ \o <<Decoder, VolumeTransformer(VolumeOf(f.opts)), Encoder>>,
                      !.svolume = volume,
                      !.sopus = opus,
                      !.pipes = @ \cup {<<f.stream, decoder>>, <<decoder, volume>>,
                                        <<volume, opus>>}]
       ELSE [f EXCEPT !.sopus = f.stream]

\* streams.opus.pipe(dispatcher): the dispatcher is fed by the terminal
\* stage and enters Streaming.
Attach(dr, s) ==
  [dr EXCEPT !.term = s, !.state = IF @ = "Created" THEN "Streaming" ELSE @]

PlayOpusStream ==
  \/ CallDestroyDispatcher("playOpusStream", "build")
  \/ /\ Running("playOpusStream", "build")
     /\ IF Top.opts.def
          THEN /\ stack' = Append(SetTop([BuildOpus(Top) EXCEPT !.pc = "pipe"]),
                                  [BuildOpus(Top) EXCEPT !.fn = "createDispatcher",
                                                         !.pc = "start"])
               /\ ev' = NoEvent
          ELSE Throw([Top EXCEPT !.sopus = Top.stream])
     /\ UNCHANGED <<dispatcher, disp, plays, rs>>
  \/ /\ Running("playOpusStream", "pipe")
     /\ disp' = [disp EXCEPT ![Top.d] = Attach(@, Top.sopus)]
     /\ stack' = Pop
     /\ ev' = Returned(Top)
     /\ UNCHANGED <<dispatcher, plays, rs>>

\* const dispatcher = this.dispatcher = new StreamDispatcher(...)
KeepSlot(new) == dispatcher
StoreSlot(new) == new

CreateDispatcher ==
  \/ CallDestroyDispatcher("createDispatcher", "new")
  \/ /\ Running("createDispatcher", "new")
     /\ LET new == Len(disp) + 1 IN
          /\ disp' = Append(disp, NewDispatcher(Top))
          /\ dispatcher' = StoreSlot(new)
          /\ IF Len(stack) > 1 /\ stack[Len(stack) - 1].fn = "playOpusStream"
               THEN /\ stack' = [Pop EXCEPT ![Len(stack) - 1].d = new]
                    /\ ev' = NoEvent
               ELSE /\ stack' = Pop
                    /\ ev' = Returned([Top EXCEPT !.d = new])
     /\ UNCHANGED <<plays, rs>>

\* --------------------------------------------------------- DefaultPlayer
\* playFile, lines 6-13: obj.seek of an undefined obj throws; else the
\* defaults are filled in and playStream is called.
PlayFile ==
  /\ Running("playFile", "start")
  /\ IF Top.opts.def
       THEN /\ stack' = SetTop([Top EXCEPT
                 !.fn = "playStream",
                 !.opts = [def |-> TRUE,
                           seek |-> IF @.seek = SeekUndefined THEN 0 ELSE @.seek,
                           volume |-> IF @.volume = VolUndefined THEN 100 ELSE @.volume]])
            /\ ev' = NoEvent
       ELSE Throw(Top)
  /\ UNCHANGED <<dispatcher, disp, plays, rs>>

\* playStream, lines 17-25: obj.seek of an undefined obj throws, and so does
\* this._shutdown(), which no class of the player defines.
PlayStream ==
  /\ Running("playStream", "start")
  /\ Throw(Top)
  /\ UNCHANGED <<dispatcher, disp, plays, rs>>

Next ==
  \/ CallPlay
  \/ CallDestroy
  \/ CallDispatcherDestroy
  \/ SourceError
  \/ DispatcherError
  \/ Destroy
  \/ DestroyDispatcherCheck
  \/ DestroyDispatcherNull
  \/ DispatcherDestroy
  \/ Handler
  \/ PlayUnknown
  \/ PlayPCMStream
  \/ PlayOpusStream
  \/ CreateDispatcher
  \/ PlayFile
  \/ PlayStream

Spec == Init /\ [][Next]_vars

\* A call in progress always runs to its next step; the application is
\* free to make no further call.
Step ==
  \/ Destroy
  \/ DispatcherError
  \/ DestroyDispatcherCheck
  \/ DestroyDispatcherNull
  \/ DispatcherDestroy
  \/ Handler
  \/ PlayUnknown
  \/ PlayPCMStream
  \/ PlayOpusStream
  \/ CreateDispatcher
  \/ PlayFile
  \/ PlayStream

FairSpec == Spec /\ WF_vars(Step)

\* ---------------------------------------------------- ClientDataResolver
\* x || null
KeepUndefined(x) == x
OrNull(x) == IF x \in {Undefined, Null, Str("")} THEN Null ELSE x

\* collection.get(key): the object of that kind stored under an ID string,
\* undefined under any other key. The guilds of the client are owned by u1.
Get(kind, coll, key) ==
  IF key[1] = "string" /\ key[2] \in coll
    THEN IF kind = "Guild" THEN Guild(key[2], "u1")
         ELSE IF kind = "GuildMember" THEN GuildMember(key[2], "g1")
         ELSE <<kind, key[2], "">>
    ELSE Undefined

\* x.id: the ID of a structure, undefined on a string or a number, a
\* TypeError on null and undefined.
Id(x) ==
  IF x[1] \in {"User", "Channel", "Guild", "GuildMember"} THEN Str(x[2])
  ELSE IF x[1] \in {"null", "undefined", "TypeError"} THEN Threw
  ELSE Undefined

resolveUser(user) ==
  IF user[1] = "User" THEN user
  ELSE IF user[1] = "string" THEN OrNull(Get("User", rs.users, user))
  ELSE IF user[1] = "GuildMember" THEN User(user[2])
  ELSE IF user[1] = "Message" THEN User(user[2])
  ELSE IF user[1] = "Guild" THEN GuildMember(user[3], user[2])
  ELSE Null

resolveUserID(user) ==
  IF user[1] \in {"User", "GuildMember"} THEN Id(user)
  ELSE IF user[1] = "string" THEN OrNull(user)
  ELSE IF user[1] = "Message" THEN Id(User(user[2]))
  ELSE IF user[1] = "Guild" THEN Str(user[3])
  ELSE Null

resolveGuild(guild) ==
  IF guild[1] = "Guild" THEN guild
  ELSE IF guild[1] = "string" THEN OrNull(Get("Guild", rs.guilds, guild))
  ELSE Null

resolveGuildMember(guild, user) ==
  IF user[1] = "GuildMember" THEN user
  ELSE IF resolveGuild(guild) = Null \/ resolveUser(user) = Null THEN Null
  ELSE OrNull(Get("GuildMember", rs.members, Id(resolveUser(user))))

resolveChannel(channel) ==
  IF channel[1] = "Channel" THEN channel
  ELSE IF channel[1] = "Message" THEN Channel(channel[3])
  ELSE IF channel[1] = "Guild" THEN OrNull(Get("Channel", rs.gchannels, Id(channel)))
  ELSE IF channel[1] = "string" THEN OrNull(Get("Channel", rs.channels, Id(channel)))
  ELSE Null

\* What the application passes to a resolver.
Inputs ==
  {Str(x) : x \in UserIds \cup ChannelIds \cup {""}}
    \cup {User("u1"), Channel("c1"), GuildMember("u1", "g1"), Message("u1", "c1"),
          Guild("g1", "u1"), Null, Undefined, Num}

PlayerIdle == UNCHANGED <<dispatcher, disp, stack, plays, ev>>
Called(fn, a, b, out) ==
  rs' = [rs EXCEPT !.fn = fn, !.a = a, !.b = b, !.out = out, !.file = NoFile]

ResolveUser ==
  /\ \E a \in Inputs : Called("resolveUser", a, Undefined, resolveUser(a))
  /\ PlayerIdle
ResolveUserID ==
  /\ \E a \in Inputs : Called("resolveUserID", a, Undefined, resolveUserID(a))
  /\ PlayerIdle
ResolveGuild ==
  /\ \E a \in Inputs : Called("resolveGuild", a, Undefined, resolveGuild(a))
  /\ PlayerIdle
ResolveGuildMember ==
  /\ \E a \in Inputs, b \in Inputs :
       Called("resolveGuildMember", a, b, resolveGuildMember(a, b))
  /\ PlayerIdle
ResolveChannel ==
  /\ \E a \in Inputs : Called("resolveChannel", a, Undefined, resolveChannel(a))
  /\ PlayerIdle

\* resolve(...) or reject(...) of the promise: only the first one settles it.
Settle(promise, how) == IF promise = "pending" THEN how ELSE promise

FileCall(f) ==
  rs' = [rs EXCEPT !.fn = "resolveFile", !.a = Undefined, !.b = Undefined,
                   !.out = Undefined, !.file = f]

\* resolveFile(resource), lines 222-242: a URL is requested, a path is
\* stat'ed, a Buffer resolves at once, anything else is rejected at once.
ResolveFile ==
  /\ rs.file.phase \in {"idle", "done"}
  /\ \E res \in {"url", "path", "buffer", "other"} :
       FileCall([phase |-> CASE res = "url" -> "request"
                             [] res = "path" -> "stat"
                             [] OTHER -> "done",
                 res |-> res,
                 promise |-> CASE res = "buffer" -> "resolved"
                               [] res = "other" -> "rejected"
                               [] OTHER -> "pending",
                 uncaught |-> FALSE])
  /\ PlayerIdle

\* .end((err, res) => err ? reject(err) : resolve(res.body))
RequestEnd ==
  /\ rs.file.phase = "request"
  /\ \E err \in BOOLEAN :
       FileCall([rs.file EXCEPT
                   !.phase = "done",
                   !.res = IF err THEN "url-error" ELSE "url-ok",
                   !.promise = Settle(@, IF err THEN "rejected" ELSE "resolved")])
  /\ PlayerIdle

\* The callback of fs.stat, lines 231-235: the path is missing (err, no
\* stats), is no regular file, or is a file, which is then read. The throw
\* is in the callback: it is not a rejection of the promise.
StatCallback ==
  /\ rs.file.phase = "stat"
  /\ \E found \in {"missing", "notfile", "file"} :
       FileCall([rs.file EXCEPT
                   !.res = found,
                   !.promise = IF found = "missing" THEN Settle(@, "rejected") ELSE @,
                   !.uncaught = found # "file",
                   !.phase = IF found = "file" THEN "read" ELSE "done"])
  /\ PlayerIdle

\* (err2, data) => { if (err2) reject(err2); else resolve(data); }
ReadCallback ==
  /\ rs.file.phase = "read"
  /\ \E err \in BOOLEAN :
       FileCall([rs.file EXCEPT
                   !.phase = "done",
                   !.res = IF err THEN "read-error" ELSE "read-ok",
                   !.promise = Settle(@, IF err THEN "rejected" ELSE "resolved")])
  /\ PlayerIdle

\* A resolver of a client with some users, channels, guilds and, in guild
\* g1, some channels and members.
ResolverInit ==
  /\ dispatcher = 0
  /\ disp = <<>>
  /\ stack = <<>>
  /\ plays = 0
  /\ ev = NoEvent
  /\ \E us \in SUBSET UserIds, cs \in SUBSET ChannelIds, gs \in SUBSET GuildIds,
        gc \in SUBSET GuildIds, ms \in SUBSET UserIds :
       rs = [NoResolver EXCEPT !.users = us, !.channels = cs, !.guilds = gs,
                               !.gchannels = gc, !.members = ms]

ResolverNext ==
  \/ ResolveUser
  \/ ResolveUserID
  \/ ResolveGuild
  \/ ResolveGuildMember
  \/ ResolveChannel
  \/ ResolveFile
  \/ RequestEnd
  \/ StatCallback
  \/ ReadCallback

ResolverSpec == ResolverInit /\ [][ResolverNext]_vars

\* ------------------------------------------------------------ properties
Dispatchers == 1..Len(disp)
Live == {i \in Dispatchers : disp[i].state # "Destroyed"}
Streaming == {i \in Dispatchers : disp[i].state = "Streaming"}
Frames == {stack[i] : i \in 1..Len(stack)}
PlayFns == {"playUnknown", "playPCMStream", "playOpusStream", "playFile", "playStream"}
BaseEntries == {"playUnknown", "playPCMStream", "playOpusStream"}
PlayReturned == ev.type = "return" /\ ev.entry \in PlayFns

\* The stages between the source and dispatcher dr, in the order the data
\* passes them.
Chain(dr) == [i \in 1..Len(PathTo(dr.pipes, dr.term)) |->
                dr.stages[PathTo(dr.pipes, dr.term)[i]]]

StageName(k) ==
  CASE k = "FFmpeg" -> "SourceDecode"
    [] k = "Volume" -> "VolumeScale"
    [] k = "Encoder" -> "EncodeToCanonical"
    [] k = "Decoder" -> "DecodeFromCanonical"

\* The stage list of a dispatcher in the words of the decision table: the
\* caller's stream fed to the dispatcher as it is counts as Passthrough.
StageList(dr) ==
  IF dr.term = Caller THEN <<"Passthrough">>
  ELSE [i \in 1..Len(Chain(dr)) |-> StageName(Chain(dr)[i].k)]

Table(cls, enabled) ==
  CASE cls \in {"FilePath", "RawByteStream"} ->
         IF enabled THEN <<"SourceDecode", "VolumeScale", "EncodeToCanonical">>
                    ELSE <<"SourceDecode", "EncodeToCanonical">>
    [] cls = "CanonicalPCM" ->
         IF enabled THEN <<"VolumeScale", "EncodeToCanonical">>
                    ELSE <<"EncodeToCanonical">>
    [] cls = "CanonicalEncoded" ->
         IF enabled THEN <<"DecodeFromCanonical", "VolumeScale", "EncodeToCanonical">>
                    ELSE <<"Passthrough">>

HasVolume(dr) == \E i \in 1..Len(Chain(dr)) : Chain(dr)[i].k = "Volume"

\* C1: at every instant at most one dispatcher created by the player is
\* not destroyed, also when calls are made from inside a listener.
C1_AtMostOneLive == Cardinality(Live) <= 1

\* The dispatcher the player held when a play call began is Destroyed once
\* the call has built a stage or has passed its first destroyDispatcher().
HeldDestroyedBeforeBuild ==
  \A f \in Frames :
    ( /\ f.fn \in PlayFns \cup {"createDispatcher"}
      /\ f.held # 0
      /\ f.stages # <<>> \/ (f = Top /\ f.pc \in {"build", "pipe", "new"}) )
      => disp[f.held].state = "Destroyed"

\* C2: a play call on a player that holds a dispatcher builds no stage of
\* the new pipeline before that dispatcher is Destroyed, and no two
\* dispatchers of the player are Streaming at the same time.
C2_TeardownBeforeBuild ==
  /\ HeldDestroyedBeforeBuild
  /\ Cardinality(Streaming) <= 1

\* C3: when a play call returns, the dispatcher slot of the player holds
\* the dispatcher the call returned, that dispatcher is not destroyed, and
\* the terminal stage of the pipeline (streams.opus) is attached to it.
C3_SlotHoldsReturned ==
  PlayReturned =>
    /\ ev.ret \in Dispatchers
    /\ dispatcher = ev.ret
    /\ disp[ev.ret].state = "Streaming"
    /\ disp[ev.ret].term # Unset
    /\ disp[ev.ret].term = disp[ev.ret].sopus
\* A play call made by a listener returns while the outer call is still
\* tearing the previous dispatcher down.
C3_Witness == PlayReturned /\ Len(stack) > 0 /\ dispatcher = ev.ret

\* C4: a play call made from inside a listener, while an outer play or
\* destroy call is tearing the previous dispatcher down, completes, and so
\* does the outer call: the call stack empties.
InListener(i) ==
  /\ stack[i].fn = "handler"
  /\ \E j \in (i + 1)..Len(stack) : stack[j].fn \in PlayFns \cup {"createDispatcher"}
ReentrantPlay == \E i \in 1..Len(stack) : InListener(i)
C4_ReentrantCallsComplete == ReentrantPlay ~> (Len(stack) = 0)
C4_Witness ==
  /\ ReentrantPlay
  /\ stack[1].fn \in PlayFns
  /\ Top.fn = "destroyDispatcher"

\* C5: for every input classification and volume setting, the stages
\* between the source and the dispatcher are those of the decision table,
\* in its order.
C5_StagesMatchTable ==
  (ev.type = "return" /\ ev.entry \in BaseEntries) =>
    StageList(disp[ev.ret]) = Table(ev.cls, ev.opts.volume # VolFalse)

\* C6: playOpusStream with volume false builds no stage: no decoder, volume
\* transformer or encoder, and the caller's stream is what the dispatcher
\* is fed by.
C6_PassthroughOnly ==
  (ev.type = "return" /\ ev.entry = "playOpusStream" /\ ev.opts.volume = VolFalse) =>
    /\ disp[ev.ret].stages = <<>>
    /\ disp[ev.ret].pipes = {}
    /\ disp[ev.ret].term = Caller
    /\ StageList(disp[ev.ret]) = <<"Passthrough">>
C6_Witness ==
  /\ ev.type = "return" /\ ev.entry = "playOpusStream" /\ ev.opts.volume = VolFalse
  /\ disp[ev.ret].state = "Streaming"

\* C7: the chain a play call built has a volume transformer exactly when
\* the volume option is not false.
C7_VolumeIffEnabled ==
  PlayReturned => (HasVolume(disp[ev.ret]) <=> ev.opts.volume # VolFalse)
C7_Witness ==
  /\ PlayReturned /\ ev.cls = "RawByteStream"
  /\ ev.opts.volume = VolUndefined
  /\ HasVolume(disp[ev.ret])

\* C8: playFile with valid options {seek: s, volume: v} returns a
\* dispatcher that is Streaming behind FFmpeg(seek s), volume transformer
\* (v) and encoder.
C8_PlayFileSucceeds ==
  (ev.type \in {"return", "throw"} /\ ev.entry = "playFile" /\ ev.opts.def
     /\ ev.opts.seek >= 0) =>
    /\ ev.type = "return"
    /\ disp[ev.ret].state = "Streaming"
    /\ Chain(disp[ev.ret]) =
         <<FFmpeg(SeekArg(ev.opts)), VolumeTransformer(ev.opts.volume), Encoder>>

\* C9: when a play call throws, no stage built for it is left: nothing
\* constructed, nothing piped.
C9_NoPartialPipeline ==
  ev.type = "throw" => (ev.stages = <<>> /\ ev.pipes = {})

\* C10: a negative seek is rejected before any stage is built: no FFmpeg
\* stage is ever constructed with it, in a call in progress or behind a
\* dispatcher.
NegativeSeek(stages) ==
  \E i \in 1..Len(stages) :
    stages[i].k = "FFmpeg" /\ stages[i].p # SeekUndefined /\ stages[i].p < 0
C10_NegativeSeekRejected ==
  /\ \A f \in Frames : ~NegativeSeek(f.stages)
  /\ \A i \in Dispatchers : ~NegativeSeek(disp[i].stages)

\* C11: destroy is idempotent: no dispatcher notifies its end twice, however
\* often and by whichever way destroy() reaches it, and player.destroy()
\* on a player with an empty slot returns without error and leaves the
\* slot empty.
C11_DestroyIdempotent ==
  /\ \A d \in Dispatchers :
       /\ disp[d].notes <= 1
       /\ disp[d].state = "Destroyed" <=> disp[d].notes = 1
  /\ (ev.type \in {"return", "throw"} /\ ev.entry = "destroy" /\ ev.held = 0) =>
       (ev.type = "return" /\ dispatcher = 0)
\* destroyDispatcher, called by a listener of the end of the dispatcher in
\* the slot, has called destroy() on that dispatcher a second time.
C11_Witness ==
  /\ Running("destroyDispatcher", "null")
  /\ dispatcher # 0
  /\ disp[dispatcher].notes = 1
  /\ \E i \in 1..Len(stack) : stack[i].fn = "handler" /\ stack[i].d = dispatcher

\* C12: when a dispatcher is destroyed, every stage constructed for its
\* play request is released with it.
C12_NoStageOutlivesDispatcher == ev.type = "destroyed" => ev.leak = {}

\* C13: an error of the source of a live pipeline is never lost: the
\* dispatcher notifies it once and is Destroyed when it is done with it.
C13_SourceErrorNotified ==
  /\ ev.type # "errorLost"
  /\ \A d \in Dispatchers : disp[d].errs <= 1
  /\ ev.type = "errorHandled" =>
       (disp[ev.ret].state = "Destroyed" /\ disp[ev.ret].notes = 1)

\* C17: a play call without its options argument uses the defaults: it
\* returns a dispatcher behind a volume transformer at factor 1.
C17_OmittedOptionsDefault ==
  (ev.type \in {"return", "throw"} /\ ev.entry \in PlayFns /\ ~ev.opts.def) =>
    /\ ev.type = "return"
    /\ \E i \in 1..Len(Chain(disp[ev.ret])) :
         Chain(disp[ev.ret])[i] = VolumeTransformer(100)

\* C18: every dispatcher that is not destroyed is the one in the
\* dispatcher slot of the player.
C18_NoOrphan == \A d \in Live : dispatcher = d

\* The places of the volume transformers on the way to the dispatcher.
VolumesOnPath(dr) ==
  {j \in 1..Len(PathTo(dr.pipes, dr.term)) :
     dr.stages[PathTo(dr.pipes, dr.term)[j]].k = "Volume"}

\* C19: with volume enabled the chain has exactly one volume transformer,
\* streams.volume is that transformer, and streams.opus is the stage piped
\* into the dispatcher.
C19_OneVolumeReferenced ==
  (ev.type = "return" /\ ev.entry \in BaseEntries /\ ev.opts.volume # VolFalse) =>
    /\ Cardinality(VolumesOnPath(disp[ev.ret])) = 1
    /\ \A j \in VolumesOnPath(disp[ev.ret]) :
         PathTo(disp[ev.ret].pipes, disp[ev.ret].term)[j] = disp[ev.ret].svolume
    /\ disp[ev.ret].sopus = disp[ev.ret].term

\* C14: resolveChannel returns the channel stored under an ID string in
\* client.channels, or null; a Channel itself; the channel of a Message;
\* the channel of a Guild whose ID is the guild's, or null.
C14_ResolveChannel ==
  rs.fn = "resolveChannel" =>
    /\ rs.a[1] = "string" =>
         rs.out = (IF rs.a[2] \in rs.channels THEN Channel(rs.a[2]) ELSE Null)
    /\ rs.a[1] = "Channel" => rs.out = rs.a
    /\ rs.a[1] = "Message" => rs.out = Channel(rs.a[3])
    /\ rs.a[1] = "Guild" =>
         rs.out = (IF rs.a[2] \in rs.gchannels THEN Channel(rs.a[2]) ELSE Null)

\* C15: once resolveFile is done with a resource, its promise is settled,
\* resolved exactly for a Buffer and for a file or URL that was read, and
\* no error was raised outside the promise.
C15_ResolveFileSettles ==
  (rs.fn = "resolveFile" /\ rs.file.phase = "done") =>
    /\ rs.file.promise \in {"resolved", "rejected"}
    /\ rs.file.promise = "resolved" <=> rs.file.res \in {"buffer", "url-ok", "read-ok"}
    /\ ~rs.file.uncaught

\* An input no resolver resolves: a value of an unsupported type, or an ID
\* string that is not in the collection.
Unresolvable(x, coll) ==
  x \in {Null, Undefined, Num} \/ (x[1] = "string" /\ x[2] \notin coll)
NullOnUnresolvable ==
  /\ rs.out # Threw
  /\ (rs.fn = "resolveUser" /\ Unresolvable(rs.a, rs.users)) => rs.out = Null
  /\ (rs.fn = "resolveGuild" /\ Unresolvable(rs.a, rs.guilds)) => rs.out = Null
  /\ (rs.fn = "resolveChannel" /\ Unresolvable(rs.a, rs.channels)) => rs.out = Null
  /\ (rs.fn = "resolveGuildMember"
        /\ \/ Unresolvable(rs.b, rs.users)
           \/ Unresolvable(rs.a, rs.guilds) /\ rs.b[1] # "GuildMember")
       => rs.out = Null

\* C16 as stated: resolveUserID too returns null on an ID string that is
\* not in client.users.
C16_AllNullOnUnresolvable ==
  /\ NullOnUnresolvable
  /\ (rs.fn = "resolveUserID" /\ Unresolvable(rs.a, rs.users)) => rs.out = Null

\* C16, amended: resolveUser, resolveGuild, resolveGuildMember and
\* resolveChannel return null and never throw on an unresolvable input;
\* resolveUserID never throws, returns null on a value of an unsupported
\* type and on the empty string, and returns every other string as it is,
\* in client.users or not.
C16_NullOnUnresolvable ==
  /\ NullOnUnresolvable
  /\ (rs.fn = "resolveUserID" /\ rs.a \in {Null, Undefined, Num, Str("")}) =>
       rs.out = Null
  /\ (rs.fn = "resolveUserID" /\ rs.a[1] = "string" /\ rs.a[2] # "") =>
       rs.out = rs.a
C16_Witness ==
  /\ rs.fn = "resolveUser"
  /\ rs.a = Str("u2")
  /\ "u2" \notin rs.users
  /\ rs.out = Null

====
